---- MODULE Spec2Model ----
(***************************************************************************)
(* Signaling layer of the many-to-many mediasoup server                    *)
(* (src/cleanManyToMany.js): the room / peer / transport / producer /      *)
(* consumer registries and the socket.io message handlers that mutate      *)
(* them.  Every handler is one action; a handler that awaits the media     *)
(* engine is split at the await into a Start action (the synchronous       *)
(* prefix, which leaves a suspended request in `pending`) and a Done /     *)
(* Fail action (the continuation after the engine resolved / rejected).    *)
(***************************************************************************)
EXTENDS Integers, Sequences, FiniteSets, Bags, TLC

\* ---------------------------------------------------------------- bounds
NumSockets == 2      \* connections that ever exist
NumRooms == 2        \* room names clients use
MaxTransports == 2   \* transports the engine ever creates
MaxProducers == 2    \* producers the engine ever creates
MaxConsumers == 1    \* consumers the engine ever creates
MaxRouters == 2      \* routers the engine ever creates
MaxJoins == 2        \* joinRoom messages ever handled
MaxPending == 2      \* requests suspended on the engine at one time

Sockets == 1..NumSockets
RoomNames == 1..NumRooms
Kinds == {"audio", "video"}

VARIABLES
  rooms,       \* let rooms = {}       roomName -> { router, peers }
  peers,       \* let peers = {}       socket.id -> { roomName, transports, producers, consumers }
  transports,  \* let transports = []  { socketId, transport, roomName, consumer }
  producers,   \* let producers = []   { socketId, producer, roomName }
  consumers,   \* let consumers = []   { socketId, consumer, roomName }
  connected,   \* socket.io: the connection has not yet emitted 'disconnect'
  pending,     \* handlers suspended at an await on the media engine
  recordings,  \* recorder (libs/combinedRecord.js): active (audioId, videoId) sessions
  issued,      \* engine: transports / producers / consumers created so far
  nextRouter,  \* engine: next router id
  joins,       \* joinRoom messages handled so far (bounds the run)
  last         \* what the handler that ran last did: callback, pushes, fault

vars == <<rooms, peers, transports, producers, consumers, connected, pending,
          recordings, issued, nextRouter, joins, last>>

\* rooms[name] === undefined
NoRoom == [exists |-> FALSE, router |-> 0, peers |-> <<>>]
\* peers[id] === undefined
NoPeer == [exists |-> FALSE, roomName |-> 0, transports |-> <<>>,
           producers |-> <<>>, consumers |-> <<>>]

Range(s) == {s[i] : i \in 1..Len(s)}

\* ------------------------------------------------------- utility functions

\* removeItems: the records that stay (the close() calls are in Disconnect)
removeItems(items, socketId) ==
  SelectSeq(items, LAMBDA item : item.socketId # socketId)

\* createRoom, line 84: the member list written back for roomName
createRoomPeers(oldPeers, socketId) == Append(oldPeers, socketId)

\* createRoom when rooms[roomName] exists (no await on that path)
createRoomExisting(rs, roomName, socketId) ==
  [rs EXCEPT ![roomName] =
     [exists |-> TRUE, router |-> rs[roomName].router,
      peers |-> createRoomPeers(rs[roomName].peers, socketId)]]

\* createRoom after worker.createRouter resolved: `peers` is still the local []
createRoomNew(rs, roomName, socketId, router1) ==
  [rs EXCEPT ![roomName] =
     [exists |-> TRUE, router |-> router1,
      peers |-> createRoomPeers(<<>>, socketId)]]

\* joinRoom, line 144: the peer record, with fresh empty id lists
newPeer(roomName) ==
  [exists |-> TRUE, roomName |-> roomName, transports |-> <<>>,
   producers |-> <<>>, consumers |-> <<>>]

\* what a handler reports in `last`
\*   cb     "none" | "ok" | "error": the response callback it invoked
\*   fault  it threw / rejected with nothing catching it
\*   stage  "suspended": it is waiting at an await on the engine;
\*          "returned": it finished without waiting;
\*          "resumed": its continuation after the await finished
\*   changed  it changed a registry (rooms, peers, transports, producers, consumers)
Report(op, sock, args, cb, resp, emits, fault, stage, changed) ==
  [op |-> op, sock |-> sock, args |-> args, cb |-> cb, resp |-> resp,
   emits |-> emits, fault |-> fault, stage |-> stage, changed |-> changed]

Init ==
  /\ rooms = [r \in RoomNames |-> NoRoom]
  /\ peers = [s \in Sockets |-> NoPeer]
  /\ transports = <<>>
  /\ producers = <<>>
  /\ consumers = <<>>
  /\ connected = [s \in Sockets |-> TRUE]
  /\ pending = EmptyBag
  /\ recordings = {}
  /\ issued = [transport |-> 0, producer |-> 0, consumer |-> 0]
  /\ nextRouter = 1
  /\ joins = 0
  /\ last = Report("idle", 0, <<>>, "none", <<>>, <<>>, FALSE, "returned", FALSE)

CanSuspend == BagCardinality(pending) < MaxPending

\* engine: the id the next transport, producer or consumer gets
nextId == 1 + issued.transport + issued.producer + issued.consumer
\* ids a client may put into a message.  The handlers use an id only to look
\* a record up by equality, so one id that names nothing (0, never issued)
\* stands for every id that names nothing.
NoSuchId == 0
HandleIds(items, type) == {items[i][type].id : i \in 1..Len(items)}
TransportIds == HandleIds(transports, "transport") \cup {NoSuchId}
ConsumerIds == HandleIds(consumers, "consumer") \cup {NoSuchId}
ProducerIds == HandleIds(producers, "producer") \cup {NoSuchId}
\* ... and the ids of the recorder's sessions, whose producers may be gone
RecordingIds ==
  ProducerIds \cup {pair[1] : pair \in recordings} \cup {pair[2] : pair \in recordings}
\* the event loop is between two handlers
Idle == last.op = "idle"
\* requests of one kind suspended on the engine
Suspended(op) ==
  BagCardinality([q \in {x \in BagToSet(pending) : x.op = op} |-> pending[q]])

\* a handler suspended at an await: the locals its continuation still uses.
\* `pending` is a bag: two suspended handlers may have equal locals.
Req(op, sock, roomName, router, consumer, kind, transportId, producerId) ==
  [op |-> op, sock |-> sock, roomName |-> roomName, router |-> router,
   consumer |-> consumer, kind |-> kind, transportId |-> transportId,
   producerId |-> producerId]
Suspend(q) == pending (+) SetToBag({q})
Resume(q) == pending (-) SetToBag({q})
Pending == BagToSet(pending)

\* ----------------------------------------------------------------- joinRoom

\* joinRoom for a room that exists: createRoom has no await, the handler's
\* continuation runs in the next microtask
JoinRoomExisting(s, r) ==
  /\ connected[s] /\ joins < MaxJoins
  /\ rooms[r].exists
  /\ rooms' = createRoomExisting(rooms, r, s)
  /\ peers' = [peers EXCEPT ![s] = newPeer(r)]
  /\ joins' = joins + 1
  /\ last' = Report("joinRoom", s, <<r>>, "ok", <<rooms[r].router>>, <<>>,
                    FALSE, "returned", TRUE)
  /\ UNCHANGED <<transports, producers, consumers, connected, pending,
                 recordings, issued, nextRouter>>

\* joinRoom for a room that does not exist: suspended on worker.createRouter
JoinRoomStart(s, r) ==
  /\ connected[s] /\ joins < MaxJoins /\ CanSuspend
  /\ ~rooms[r].exists
  /\ nextRouter + Suspended("joinRoom") <= MaxRouters
  /\ pending' = Suspend(Req("joinRoom", s, r, 0, FALSE, "", 0, 0))
  /\ joins' = joins + 1
  /\ last' = Report("joinRoom", s, <<r>>, "none", <<>>, <<>>, FALSE, "suspended", FALSE)
  /\ UNCHANGED <<rooms, peers, transports, producers, consumers, connected,
                 recordings, issued, nextRouter>>

\* worker.createRouter resolved: lines 83-85, then 144-145
JoinRoomDone(q) ==
  /\ q \in Pending /\ q.op = "joinRoom"
  /\ rooms' = createRoomNew(rooms, q.roomName, q.sock, nextRouter)
  /\ peers' = [peers EXCEPT ![q.sock] = newPeer(q.roomName)]
  /\ nextRouter' = nextRouter + 1
  /\ pending' = Resume(q)
  /\ last' = Report("joinRoom", q.sock, <<q.roomName>>, "ok", <<nextRouter>>,
                    <<>>, FALSE, "resumed", TRUE)
  /\ UNCHANGED <<transports, producers, consumers, connected, recordings,
                 issued, joins>>

\* worker.createRouter rejected: the rejection leaves the async handler
JoinRoomFail(q) ==
  /\ q \in Pending /\ q.op = "joinRoom"
  /\ pending' = Resume(q)
  /\ last' = Report("joinRoom", q.sock, <<q.roomName>>, "none", <<>>, <<>>,
                    TRUE, "resumed", FALSE)
  /\ UNCHANGED <<rooms, peers, transports, producers, consumers, connected,
                 recordings, issued, nextRouter, joins>>

\* --------------------------------------------------------------- disconnect

\* ids of the handles of socketId's records; type is "transport", "producer"
\* or "consumer" as in removeItems(items, socketId, type)
ownedHandles(items, socketId, type) ==
  {items[i][type].id : i \in {j \in 1..Len(items) : items[j].socketId = socketId}}

\* engine: what closing producers and then transports does to the consumers
\* that stay in the registry.  An open consumer of a closed producer gets a
\* 'producerclose' notification queued ("closing"); a consumer on a closed
\* transport is closed with it and gets nothing any more.
engineClose(cs, closedProducers, closedTransports) ==
  [i \in 1..Len(cs) |->
     [cs[i] EXCEPT !.consumer.st =
        IF cs[i].consumer.transportId \in closedTransports THEN "closed"
        ELSE IF @ = "open" /\ cs[i].consumer.producerId \in closedProducers
             THEN "closing"
             ELSE @]]

\* line 139: the room record written back when socketId leaves
leaveRoom(room, socketId) ==
  [exists |-> TRUE, router |-> room.router,
   peers |-> SelectSeq(room.peers, LAMBDA id : id # socketId)]

\* the argument a call leaves out (stopCombinedRecording(id) at line 322)
Undefined == 0 - 1

\* recorder: stopCombinedRecording(audioProducerId, videoProducerId) returns the
\* file path of the active session of that pair, or null when there is none
recorderHas(recs, audioProducerId, videoProducerId) ==
  <<audioProducerId, videoProducerId>> \in recs
recorderStop(recs, audioProducerId, videoProducerId) ==
  recs \ {<<audioProducerId, videoProducerId>>}
\* recorder: startCombinedRecording(...) makes the session of the pair active
recorderStart(recs, audioProducerId, videoProducerId) ==
  recs \cup {<<audioProducerId, videoProducerId>>}

\* second 'disconnect' listener, lines 319-325: stopCombinedRecording(id) for
\* every producer still registered for the socket
recordingCleanup(recs, prods, socketId) ==
  recs \ {<<id, Undefined>> : id \in ownedHandles(prods, socketId, "producer")}

\* first 'disconnect' listener, lines 134-139: the registries as they are before
\* the handler and after each of its statements, in the order of the code:
\* line 134 (consumers), 135 (producers), 136 (transports), 138 (delete
\* peers[socket.id]), 139 (rooms[roomName] without the socket).  Line 137
\* throws when the socket has no peer record: the run then ends after line 136.
disconnectRun(s) ==
  LET closedProducers ==
        {producers[i].producer.id :
           i \in {j \in 1..Len(producers) :
                    producers[j].socketId = s /\ ~producers[j].producer.closed}}
      closedTransports == ownedHandles(transports, s, "transport")
      roomName == peers[s].roomName
      st0 == [consumers |-> consumers, producers |-> producers,
              transports |-> transports, peers |-> peers, rooms |-> rooms]
      st1 == [st0 EXCEPT !.consumers = removeItems(@, s)]
      st2 == [st1 EXCEPT !.producers = removeItems(@, s),
                         !.consumers = engineClose(@, closedProducers, {})]
      st3 == [st2 EXCEPT !.transports = removeItems(@, s),
                         !.consumers = engineClose(@, {}, closedTransports)]
      st4 == [st3 EXCEPT !.peers[s] = NoPeer]
      st5 == [st4 EXCEPT !.rooms[roomName] = leaveRoom(@, s)]
  IN IF peers[s].exists THEN <<st0, st1, st2, st3, st4, st5>>
                        ELSE <<st0, st1, st2, st3>>

\* both 'disconnect' listeners, in registration order.  The first throws at
\* line 137 when the socket has no peer record, after the three removeItems;
\* the throw leaves emit(), so the second listener does not run.
Disconnect(s) ==
  /\ connected[s]
  /\ connected' = [connected EXCEPT ![s] = FALSE]
  /\ LET run == disconnectRun(s)
         end == run[Len(run)]
         roomName == peers[s].roomName
     IN /\ consumers' = end.consumers
        /\ producers' = end.producers
        /\ transports' = end.transports
        /\ peers' = end.peers
        /\ rooms' = end.rooms
        /\ IF peers[s].exists
             THEN /\ recordings' = recordingCleanup(recordings, end.producers, s)
                  /\ last' = Report("disconnect", s, <<roomName>>, "none", <<>>, <<>>,
                                    FALSE, "returned", TRUE)
             ELSE /\ recordings' = recordings
                  /\ last' = Report("disconnect", s, <<roomName>>, "none", <<>>, <<>>,
                                    TRUE, "returned",
                                    <<consumers', producers', transports'>>
                                      # <<consumers, producers, transports>>)
  /\ UNCHANGED <<pending, issued, nextRouter, joins>>

\* ---------------------------------------------------- createWebRtcTransport

\* addTransport, line 89
addTransportRecord(ts, socketId, id, router, roomName, consumer) ==
  Append(ts, [socketId |-> socketId, transport |-> [id |-> id, router |-> router],
              roomName |-> roomName, consumer |-> consumer])
\* addTransport, line 90
addTransportOwned(peer, id) == [peer EXCEPT !.transports = Append(@, id)]

\* lines 149-151: throws when the socket has no peer record
CreateTransportStart(s, consumer) ==
  /\ connected[s]
  /\ IF peers[s].exists
       THEN /\ CanSuspend
            /\ issued.transport + Suspended("createWebRtcTransport") < MaxTransports
            /\ LET q == Req("createWebRtcTransport", s, peers[s].roomName,
                            rooms[peers[s].roomName].router, consumer, "", 0, 0)
               IN pending' = Suspend(q)
            /\ last' = Report("createWebRtcTransport", s, <<consumer>>, "none",
                              <<>>, <<>>, FALSE, "suspended", FALSE)
       ELSE /\ pending' = pending
            /\ last' = Report("createWebRtcTransport", s, <<consumer>>, "none",
                              <<>>, <<>>, TRUE, "returned", FALSE)
  /\ UNCHANGED <<rooms, peers, transports, producers, consumers, connected,
                 recordings, issued, nextRouter, joins>>

\* lines 152-162: callback first, then addTransport, which throws at line 90
\* (after line 89 ran) when the peer record is gone
CreateTransportDone(q) ==
  /\ q \in Pending /\ q.op = "createWebRtcTransport"
  /\ pending' = Resume(q)
  /\ issued' = [issued EXCEPT !.transport = @ + 1]
  /\ transports' = addTransportRecord(transports, q.sock, nextId, q.router,
                                      q.roomName, q.consumer)
  /\ IF peers[q.sock].exists
       THEN peers' = [peers EXCEPT ![q.sock] = addTransportOwned(@, nextId)]
       ELSE peers' = peers
  /\ last' = Report("createWebRtcTransport", q.sock, <<q.consumer>>, "ok",
                    <<nextId>>, <<>>, ~peers[q.sock].exists, "resumed", TRUE)
  /\ UNCHANGED <<rooms, producers, consumers, connected, recordings,
                 nextRouter, joins>>

\* lines 163-165: the rejection is logged, the callback is not called
CreateTransportFail(q) ==
  /\ q \in Pending /\ q.op = "createWebRtcTransport"
  /\ pending' = Resume(q)
  /\ last' = Report("createWebRtcTransport", q.sock, <<q.consumer>>, "none",
                    <<>>, <<>>, FALSE, "resumed", FALSE)
  /\ UNCHANGED <<rooms, peers, transports, producers, consumers, connected,
                 recordings, issued, nextRouter, joins>>

\* ------------------------------------------------------------- getProducers

\* (mutant of getProducersList: the caller's own producers are not left out)
getProducersListWithOwn(prods, socketId, roomName) ==
  LET sel == SelectSeq(prods, LAMBDA producerData : producerData.roomName = roomName)
  IN [i \in 1..Len(sel) |-> sel[i].producer.id]

\* lines 171-176
getProducersList(prods, socketId, roomName) ==
  LET sel == SelectSeq(prods, LAMBDA producerData :
                 producerData.socketId # socketId /\ producerData.roomName = roomName)
  IN [i \in 1..Len(sel) |-> sel[i].producer.id]

\* line 170 throws when the socket has no peer record
GetProducers(s) ==
  /\ connected[s]
  /\ last' = IF peers[s].exists
               THEN Report("getProducers", s, <<>>, "ok",
                           getProducersList(producers, s, peers[s].roomName),
                           <<>>, FALSE, "returned", FALSE)
               ELSE Report("getProducers", s, <<>>, "none", <<>>, <<>>,
                           TRUE, "returned", FALSE)
  /\ UNCHANGED <<rooms, peers, transports, producers, consumers, connected,
                 pending, recordings, issued, nextRouter, joins>>

\* -------------------------------------------------------- transport-connect

\* getTransport, line 114: the socket's non-consumer transports, in order
sendTransports(ts, socketId) ==
  SelectSeq(ts, LAMBDA transport : transport.socketId = socketId /\ ~transport.consumer)
\* getTransport, line 115: throws when the filter matched nothing
getTransportFails(ts, socketId) == sendTransports(ts, socketId) = <<>>
getTransport(ts, socketId) == sendTransports(ts, socketId)[1].transport

TransportConnect(s) ==
  /\ connected[s]
  /\ last' = Report("transport-connect", s, <<>>, "none", <<>>, <<>>,
                    getTransportFails(transports, s), "returned", FALSE)
  /\ UNCHANGED <<rooms, peers, transports, producers, consumers, connected,
                 pending, recordings, issued, nextRouter, joins>>

\* -------------------------------------------------------- transport-produce

\* engine: the transport with this id has not been closed.  The handlers
\* remove a transport's record in the step that closes it, so the open
\* transports are the registered ones.
transportOpen(ts, id) == \E i \in 1..Len(ts) : ts[i].transport.id = id

\* addProducer, line 94
addProducerRecord(prods, socketId, producer, roomName) ==
  Append(prods, [socketId |-> socketId, producer |-> producer, roomName |-> roomName])
\* addProducer, line 95
addProducerOwned(peer, id) == [peer EXCEPT !.producers = Append(@, id)]

\* informConsumers, lines 105-110: the producer records it visits
informTargets(prods, roomName, socketId) ==
  SelectSeq(prods, LAMBDA producerData :
     producerData.socketId # socketId /\ producerData.roomName = roomName)
\* line 107 throws at the first visited record whose owner has no peer record
informThrowsAt(prods, ps, roomName, socketId) ==
  LET sel == informTargets(prods, roomName, socketId)
      bad == {i \in 1..Len(sel) : ~ps[sel[i].socketId].exists}
  IN IF bad = {} THEN 0 ELSE CHOOSE i \in bad : \A j \in bad : i <= j
\* line 108: the 'new-producer' pushes, <<receiving socket, event, producer id>>
informConsumers(prods, ps, roomName, socketId, id) ==
  LET sel == informTargets(prods, roomName, socketId)
      stop == informThrowsAt(prods, ps, roomName, socketId)
      n == IF stop = 0 THEN Len(sel) ELSE stop - 1
  IN [i \in 1..n |-> <<sel[i].socketId, "new-producer", id>>]

\* line 200
producersExist(prods) == Len(prods) > 1

\* line 186 up to the await: getTransport throws when the socket has no send
\* transport
ProduceStart(s, kind) ==
  /\ connected[s]
  /\ IF getTransportFails(transports, s)
       THEN /\ pending' = pending
            /\ last' = Report("transport-produce", s, <<kind>>, "none", <<>>,
                              <<>>, TRUE, "returned", FALSE)
       ELSE /\ CanSuspend
            /\ issued.producer + Suspended("transport-produce") < MaxProducers
            /\ LET tr == getTransport(transports, s)
                   q == Req("transport-produce", s, 0, tr.router, FALSE, kind, tr.id, 0)
               IN pending' = Suspend(q)
            /\ last' = Report("transport-produce", s, <<kind>>, "none", <<>>,
                              <<>>, FALSE, "suspended", FALSE)
  /\ UNCHANGED <<rooms, peers, transports, producers, consumers, connected,
                 recordings, issued, nextRouter, joins>>

\* lines 190-201, after transport.produce resolved.  A produce that the worker
\* answered before the transport was closed resolves with a producer that is
\* closed already.  Line 190 throws when the peer record is gone.
ProduceDone(q) ==
  /\ q \in Pending /\ q.op = "transport-produce"
  /\ pending' = Resume(q)
  /\ issued' = [issued EXCEPT !.producer = @ + 1]
  /\ LET producer == [id |-> nextId, kind |-> q.kind, router |-> q.router,
                      closed |-> ~transportOpen(transports, q.transportId)]
         roomName == peers[q.sock].roomName
         prods1 == addProducerRecord(producers, q.sock, producer, roomName)
         peers1 == [peers EXCEPT ![q.sock] = addProducerOwned(@, nextId)]
         thrown == informThrowsAt(prods1, peers1, roomName, q.sock) # 0
     IN IF peers[q.sock].exists
          THEN /\ producers' = prods1
               /\ peers' = peers1
               /\ last' = Report("transport-produce", q.sock, <<q.kind>>,
                                 IF thrown THEN "none" ELSE "ok",
                                 IF thrown THEN <<>>
                                 ELSE <<nextId, producersExist(prods1)>>,
                                 informConsumers(prods1, peers1, roomName, q.sock, nextId),
                                 thrown, "resumed", TRUE)
          ELSE /\ UNCHANGED <<producers, peers>>
               /\ last' = Report("transport-produce", q.sock, <<q.kind>>, "none",
                                 <<>>, <<>>, TRUE, "resumed", FALSE)
  /\ UNCHANGED <<rooms, transports, consumers, connected, recordings,
                 nextRouter, joins>>

\* transport.produce rejected: the rejection leaves the async handler
ProduceFail(q) ==
  /\ q \in Pending /\ q.op = "transport-produce"
  /\ pending' = Resume(q)
  /\ last' = Report("transport-produce", q.sock, <<q.kind>>, "none", <<>>, <<>>,
                    TRUE, "resumed", FALSE)
  /\ UNCHANGED <<rooms, peers, transports, producers, consumers, connected,
                 recordings, issued, nextRouter, joins>>

\* --------------------------------------------------- transport-recv-connect

\* lines 206-208 / 216-218: transports.find(consumer && id == given id); the
\* index of the record found, 0 when find returns undefined
findConsumerTransport(ts, socketId, serverConsumerTransportId) ==
  LET hit == {i \in 1..Len(ts) :
                ts[i].consumer /\ ts[i].transport.id = serverConsumerTransportId}
  IN IF hit = {} THEN 0 ELSE CHOOSE i \in hit : \A j \in hit : i <= j

RecvConnect(s, serverConsumerTransportId) ==
  /\ connected[s]
  /\ last' = Report("transport-recv-connect", s, <<serverConsumerTransportId>>,
                    "none", <<>>, <<>>,
                    findConsumerTransport(transports, s, serverConsumerTransportId) = 0,
                    "returned", FALSE)
  /\ UNCHANGED <<rooms, peers, transports, producers, consumers, connected,
                 pending, recordings, issued, nextRouter, joins>>

\* ------------------------------------------------------------------ consume

\* engine: router.canConsume is true when the router has the producer and the
\* capabilities the client sent fit it
canConsume(prods, router, producerId, rtpCapabilitiesFit) ==
  /\ rtpCapabilitiesFit
  /\ \E i \in 1..Len(prods) :
       /\ prods[i].producer.id = producerId
       /\ prods[i].producer.router = router
       /\ ~prods[i].producer.closed

\* addConsumer, line 99
addConsumerRecord(cs, socketId, consumer, roomName) ==
  Append(cs, [socketId |-> socketId, consumer |-> consumer, roomName |-> roomName])
\* addConsumer, line 100
addConsumerOwned(peer, id) == [peer EXCEPT !.consumers = Append(@, id)]

\* lines 213-223 up to the await, inside the try: a missing peer record or a
\* transport that find() does not return throws into the catch; canConsume
\* false skips the whole body
ConsumeStart(s, rtpCapabilitiesFit, remoteProducerId, serverConsumerTransportId) ==
  /\ connected[s]
  /\ LET args == <<rtpCapabilitiesFit, remoteProducerId, serverConsumerTransportId>>
         found == findConsumerTransport(transports, s, serverConsumerTransportId)
         roomName == peers[s].roomName
     IN IF ~peers[s].exists \/ found = 0
          THEN /\ pending' = pending
               /\ last' = Report("consume", s, args, "error", <<"error">>, <<>>,
                                 FALSE, "returned", FALSE)
          ELSE IF ~canConsume(producers, rooms[roomName].router, remoteProducerId,
                              rtpCapabilitiesFit)
          THEN /\ pending' = pending
               /\ last' = Report("consume", s, args, "none", <<>>, <<>>,
                                 FALSE, "returned", FALSE)
          ELSE /\ CanSuspend
               /\ issued.consumer + Suspended("consume") < MaxConsumers
               /\ LET q == Req("consume", s, roomName, rooms[roomName].router, FALSE,
                               "", transports[found].transport.id, remoteProducerId)
                  IN pending' = Suspend(q)
               /\ last' = Report("consume", s, args, "none", <<>>, <<>>,
                                 FALSE, "suspended", FALSE)
  /\ UNCHANGED <<rooms, peers, transports, producers, consumers, connected,
                 recordings, issued, nextRouter, joins>>

\* engine: transport.consume resolves only while the producer is there
producerOpen(prods, id) ==
  \E i \in 1..Len(prods) : prods[i].producer.id = id /\ ~prods[i].producer.closed

\* lines 230-253, after transport.consume resolved.  addConsumer throws at line
\* 100 (after line 99 ran) when the peer record is gone; the catch answers.
ConsumeDone(q) ==
  /\ q \in Pending /\ q.op = "consume"
  /\ producerOpen(producers, q.producerId)
  /\ pending' = Resume(q)
  /\ issued' = [issued EXCEPT !.consumer = @ + 1]
  /\ LET consumer == [id |-> nextId, producerId |-> q.producerId,
                      transportId |-> q.transportId,
                      st |-> IF transportOpen(transports, q.transportId)
                             THEN "open" ELSE "closed"]
     IN /\ consumers' = addConsumerRecord(consumers, q.sock, consumer, q.roomName)
        /\ IF peers[q.sock].exists
             THEN /\ peers' = [peers EXCEPT ![q.sock] = addConsumerOwned(@, nextId)]
                  /\ last' = Report("consume", q.sock, <<TRUE, q.producerId, q.transportId>>,
                                    "ok", <<nextId, q.producerId>>, <<>>,
                                    FALSE, "resumed", TRUE)
             ELSE /\ peers' = peers
                  /\ last' = Report("consume", q.sock, <<TRUE, q.producerId, q.transportId>>,
                                    "error", <<"error">>, <<>>, FALSE, "resumed", TRUE)
  /\ UNCHANGED <<rooms, transports, producers, connected, recordings,
                 nextRouter, joins>>

\* transport.consume rejected: lines 255-262
ConsumeFail(q) ==
  /\ q \in Pending /\ q.op = "consume"
  /\ pending' = Resume(q)
  /\ last' = Report("consume", q.sock, <<TRUE, q.producerId, q.transportId>>,
                    "error", <<"error">>, <<>>, FALSE, "resumed", FALSE)
  /\ UNCHANGED <<rooms, peers, transports, producers, consumers, connected,
                 recordings, issued, nextRouter, joins>>

\* (mutant of producerClosedPush: the push carries the consumer's id)
producerClosedPushConsumerId(consumerData) ==
  <<consumerData.socketId, "producer-closed", consumerData.consumer.id>>

\* line 236: socket.emit('producer-closed', { remoteProducerId }) on the socket
\* of the consume request, <<receiving socket, event, producer id>>
producerClosedPush(consumerData) ==
  <<consumerData.socketId, "producer-closed", consumerData.consumer.producerId>>
\* line 238
removeTransport(ts, id) ==
  SelectSeq(ts, LAMBDA transportData : transportData.transport.id # id)
\* line 240
removeConsumer(cs, id) ==
  SelectSeq(cs, LAMBDA consumerData : consumerData.consumer.id # id)

\* consumer.on('producerclose'), lines 234-241, for the consumer of record i.
\* Closing the receive transport closes every consumer on it.
ProducerClose(i) ==
  /\ i \in 1..Len(consumers)
  /\ consumers[i].consumer.st = "closing"
  /\ LET c == consumers[i]
         closed == engineClose(consumers, {}, {c.consumer.transportId})
     IN /\ transports' = removeTransport(transports, c.consumer.transportId)
        /\ consumers' = removeConsumer(closed, c.consumer.id)
        /\ last' = Report("producerclose", c.socketId,
                          <<c.consumer.id, c.consumer.producerId>>, "none",
                          <<>>, <<producerClosedPush(c)>>, FALSE, "returned", TRUE)
  /\ UNCHANGED <<rooms, peers, producers, connected, pending, recordings,
                 issued, nextRouter, joins>>

\* ----------------------------------------------------------- consumer-resume

\* line 267: destructuring the result of find() throws when no record matches
ConsumerResume(s, serverConsumerId) ==
  /\ connected[s]
  /\ last' = Report("consumer-resume", s, <<serverConsumerId>>, "none", <<>>, <<>>,
                    ~\E i \in 1..Len(consumers) :
                        consumers[i].consumer.id = serverConsumerId,
                    "returned", FALSE)
  /\ UNCHANGED <<rooms, peers, transports, producers, consumers, connected,
                 pending, recordings, issued, nextRouter, joins>>

\* ---------------------------------------------------------------- recording

\* lines 274-275: producers.find(p => p.producer.id === id)?.producer; the
\* index of the record found, 0 for undefined
findProducer(prods, id) ==
  LET hit == {i \in 1..Len(prods) : prods[i].producer.id = id}
  IN IF hit = {} THEN 0 ELSE CHOOSE i \in hit : \A j \in hit : i <= j

\* (mutant of startRecordingError: the kind check fails only when both kinds
\* are wrong)
startRecordingErrorBothKinds(prods, audioProducerId, videoProducerId) ==
  LET a == findProducer(prods, audioProducerId)
      v == findProducer(prods, videoProducerId)
  IN IF a = 0 \/ v = 0 THEN "One or both producers not found"
     ELSE IF prods[a].producer.kind # "audio" /\ prods[v].producer.kind # "video"
     THEN "Invalid producer kinds. Need one audio and one video producer."
     ELSE ""

\* lines 278-287: "" when both checks pass, else the error answered
startRecordingError(prods, audioProducerId, videoProducerId) ==
  LET a == findProducer(prods, audioProducerId)
      v == findProducer(prods, videoProducerId)
  IN IF a = 0 \/ v = 0 THEN "One or both producers not found"
     ELSE IF prods[a].producer.kind # "audio" \/ prods[v].producer.kind # "video"
     THEN "Invalid producer kinds. Need one audio and one video producer."
     ELSE ""

\* lines 272-301.  Reading peers[socket.id].roomName for the call at line 292
\* throws into the catch when the socket has no peer record.
StartRecording(s, audioProducerId, videoProducerId) ==
  /\ connected[s]
  /\ LET err == startRecordingError(producers, audioProducerId, videoProducerId)
         args == <<audioProducerId, videoProducerId>>
     IN IF err # ""
          THEN /\ recordings' = recordings
               /\ last' = Report("startRecording", s, args, "error", <<"error", err>>,
                                 <<>>, FALSE, "returned", FALSE)
          ELSE IF ~peers[s].exists
          THEN /\ recordings' = recordings
               /\ last' = Report("startRecording", s, args, "error",
                                 <<"error", "TypeError">>, <<>>, FALSE, "returned", FALSE)
          ELSE /\ recordings' = recorderStart(recordings, audioProducerId, videoProducerId)
               /\ last' = Report("startRecording", s, args, "ok",
                                 <<"success", "fileName">>, <<>>, FALSE, "returned", FALSE)
  /\ UNCHANGED <<rooms, peers, transports, producers, consumers, connected,
                 pending, issued, nextRouter, joins>>

\* (mutant of stopRecordingAnswer: a null file path is answered as a success)
stopRecordingAnswerNoCheck(filePath) == <<"success", "filePath">>

\* lines 307-311: the answer for the file path the recorder returned
stopRecordingAnswer(filePath) ==
  IF filePath THEN <<"success", "filePath">> ELSE <<"error", "Recording not found">>

\* lines 305-315
StopRecording(s, audioProducerId, videoProducerId) ==
  /\ connected[s]
  /\ recordings' = recorderStop(recordings, audioProducerId, videoProducerId)
  /\ LET answer == stopRecordingAnswer(
                     recorderHas(recordings, audioProducerId, videoProducerId))
     IN last' = Report("stopRecording", s, <<audioProducerId, videoProducerId>>,
                       IF answer[1] = "success" THEN "ok" ELSE "error", answer,
                       <<>>, FALSE, "returned", FALSE)
  /\ UNCHANGED <<rooms, peers, transports, producers, consumers, connected,
                 pending, issued, nextRouter, joins>>

\* the handler returns: the event loop takes the next event only then
Return ==
  /\ ~Idle
  /\ last' = Report("idle", 0, <<>>, "none", <<>>, <<>>, FALSE, "returned", FALSE)
  /\ UNCHANGED <<rooms, peers, transports, producers, consumers, connected,
                 pending, recordings, issued, nextRouter, joins>>

\* the event loop, when a handler has returned (Idle), runs the handler of the
\* next event: a message of a connected socket, a disconnect, an engine answer
\* or an engine notification
Next ==
  \/ Idle /\ \E s \in Sockets, r \in RoomNames : JoinRoomExisting(s, r)
  \/ Idle /\ \E s \in Sockets, r \in RoomNames : JoinRoomStart(s, r)
  \/ Idle /\ \E q \in Pending : JoinRoomDone(q)
  \/ Idle /\ \E q \in Pending : JoinRoomFail(q)
  \/ Idle /\ \E s \in Sockets : Disconnect(s)
  \/ Idle /\ \E s \in Sockets, consumer \in BOOLEAN : CreateTransportStart(s, consumer)
  \/ Idle /\ \E q \in Pending : CreateTransportDone(q)
  \/ Idle /\ \E q \in Pending : CreateTransportFail(q)
  \/ Idle /\ \E s \in Sockets : GetProducers(s)
  \/ Idle /\ \E s \in Sockets : TransportConnect(s)
  \/ Idle /\ \E s \in Sockets, kind \in Kinds : ProduceStart(s, kind)
  \/ Idle /\ \E q \in Pending : ProduceDone(q)
  \/ Idle /\ \E q \in Pending : ProduceFail(q)
  \/ Idle /\ \E s \in Sockets, id \in TransportIds : RecvConnect(s, id)
  \/ Idle /\ \E s \in Sockets, fit \in BOOLEAN, p \in ProducerIds, tr \in TransportIds :
              /\ fit \/ producerOpen(producers, p)
              /\ ConsumeStart(s, fit, p, tr)
  \/ Idle /\ \E q \in Pending : ConsumeDone(q)
  \/ Idle /\ \E q \in Pending : ConsumeFail(q)
  \/ Idle /\ \E i \in 1..Len(consumers) : ProducerClose(i)
  \/ Idle /\ \E s \in Sockets, id \in ConsumerIds : ConsumerResume(s, id)
  \/ Idle /\ \E s \in Sockets, a \in RecordingIds, v \in RecordingIds : StartRecording(s, a, v)
  \/ Idle /\ \E s \in Sockets, a \in RecordingIds, v \in RecordingIds : StopRecording(s, a, v)
  \/ Return

Spec == Init /\ [][Next]_vars

\* ======================================================================
\* Properties
\* ======================================================================

\* a request of socket p is suspended on the engine
InFlight(p) == \E q \in Pending : q.sock = p
\* a registry holds a record tagged with socket p
Owns(items, p) == \E i \in 1..Len(items) : items[i].socketId = p
\* how often x occurs in a list
Occurrences(seq, x) == Cardinality({i \in 1..Len(seq) : seq[i] = x})
\* the record of a registry whose handle has this id
HasHandle(items, type, id) == \E i \in 1..Len(items) : items[i][type].id = id

\* C1: after the disconnect handler of a peer p that had completed joinRoom and
\* has no request in flight, no transport, producer or consumer record is tagged
\* with p, p is in no room's member list, the peer record of p is gone, and the
\* room its peer record named is still there.
CE_C1_DisconnectCleansUp ==
  (last.op = "disconnect" /\ ~last.fault /\ ~InFlight(last.sock)) =>
     /\ ~Owns(transports, last.sock)
     /\ ~Owns(producers, last.sock)
     /\ ~Owns(consumers, last.sock)
     /\ ~peers[last.sock].exists
     /\ \A r \in RoomNames : last.sock \notin Range(rooms[r].peers)
     /\ rooms[last.args[1]].exists

\* C2: in every state a peer id occurs at most once in a room's member list.
CE_C2_MemberOnce ==
  \A r \in RoomNames : \A p \in Sockets : Occurrences(rooms[r].peers, p) <= 1

\* C3: when the engine fires producerclose on a consumer of peer B (the producer
\* it consumes was closed by its owner's disconnect), B's socket is sent one
\* producer-closed push carrying exactly the id of that producer, and afterwards
\* the Consumer registry has no record of that consumer.
C3_ProducerClosedPush ==
  last.op = "producerclose" =>
     /\ last.emits = << <<last.sock, "producer-closed", last.args[2]>> >>
     /\ ~HasHandle(consumers, "consumer", last.args[1])
     /\ ~producerOpen(producers, last.args[2])
     /\ ~HasHandle(producers, "producer", last.args[2])

\* C3 happens: A has disconnected, B is connected and has just been told
W_C3_ProducerClosedPush ==
  /\ last.op = "producerclose"
  /\ connected[last.sock]
  /\ \E a \in Sockets : a # last.sock /\ ~connected[a]

\* the peers joined to room r other than p
OthersInRoom(r, p) ==
  {x \in Sockets : x # p /\ peers[x].exists /\ peers[x].roomName = r}
\* the pushes of the last handler that went to socket x
PushesTo(x) == {i \in 1..Len(last.emits) : last.emits[i][1] = x}

\* C4: when transport-produce of peer p creates a producer, every other peer
\* joined to p's room gets exactly one new-producer push with the new id, and
\* nobody else gets one.
CE_C4_FanOutToRoom ==
  (last.op = "transport-produce" /\ last.cb = "ok") =>
     \A x \in Sockets :
        /\ Cardinality(PushesTo(x)) =
             IF x \in OthersInRoom(peers[last.sock].roomName, last.sock) THEN 1 ELSE 0
        /\ \A i \in PushesTo(x) :
             last.emits[i] = <<x, "new-producer", last.resp[1]>>

\* socket p owns a receive transport with this id
OwnsRecvTransport(p, id) ==
  \E i \in 1..Len(transports) :
     /\ transports[i].transport.id = id
     /\ transports[i].consumer
     /\ transports[i].socketId = p

\* the transport with this id is registered to a socket other than p
RegisteredToOther(p, id) ==
  \E i \in 1..Len(transports) :
     transports[i].transport.id = id /\ transports[i].socketId # p

\* C5: a consume request whose serverConsumerTransportId is not the id of a
\* receive transport of the caller has, when its handler is through, been
\* answered with an error and has changed no registry.  (For requests the
\* router would serve.  A handler that returned without waiting sees the
\* registries as the request found them; for one that went through the engine
\* the case is the id registered to another socket, which it then was all
\* along: ids are not reused and records do not change owner.)
CE_C5_ForeignTransportRefused ==
  (/\ last.op = "consume"
   /\ \/ /\ last.stage = "returned"
         /\ ~OwnsRecvTransport(last.sock, last.args[3])
         /\ peers[last.sock].exists
         /\ canConsume(producers, rooms[peers[last.sock].roomName].router,
                       last.args[2], last.args[1])
      \/ /\ last.stage = "resumed"
         /\ RegisteredToOther(last.sock, last.args[3])) =>
     /\ last.cb = "error"
     /\ ~last.changed

\* C6: getProducers of a joined peer p answers exactly the ids of the producer
\* records of p's room that p does not own, in registry order.
C6_GetProducersExact ==
  (last.op = "getProducers" /\ peers[last.sock].exists) =>
     LET p == last.sock
         r == peers[p].roomName
         Qualifies(i) == producers[i].roomName = r /\ producers[i].socketId # p
         At(k) == CHOOSE i \in 1..Len(producers) : producers[i].producer.id = last.resp[k]
     IN /\ last.cb = "ok"
        /\ \A k \in 1..Len(last.resp) :
             \E i \in 1..Len(producers) :
                producers[i].producer.id = last.resp[k] /\ Qualifies(i)
        /\ \A i \in 1..Len(producers) :
             Qualifies(i) =>
               Occurrences(last.resp, producers[i].producer.id) = 1
        /\ \A k1, k2 \in 1..Len(last.resp) : k1 < k2 => At(k1) < At(k2)

\* C6 happens: the answer names a producer and leaves the caller's own one out
W_C6_GetProducersExact ==
  /\ last.op = "getProducers"
  /\ Len(last.resp) = 1
  /\ Owns(producers, last.sock)

RequestOps == {"joinRoom", "createWebRtcTransport", "getProducers",
               "transport-produce", "consume", "startRecording", "stopRecording"}
NotifyOps == {"transport-connect", "transport-recv-connect", "consumer-resume"}

\* C7: a message other than joinRoom handled on a connection without a peer
\* record ends in an error answer when it has a callback, never in an unhandled
\* fault, and changes no registry.
CE_C7_NotJoinedIsAnError ==
  (/\ last.op \in (RequestOps \cup NotifyOps) \ {"joinRoom", "stopRecording"}
   /\ last.stage = "returned"
   /\ ~peers[last.sock].exists) =>
     /\ ~last.fault
     /\ last.op \in RequestOps => last.cb = "error"
     /\ ~last.changed

\* C8: a request/response message of a joined peer (or a joinRoom) that has
\* finished was answered: its callback was called, with a payload or an error.
CE_C8_AlwaysAnswered ==
  (/\ last.op \in RequestOps
   /\ last.stage # "suspended"
   /\ last.op = "joinRoom" \/ peers[last.sock].exists) =>
     last.cb \in {"ok", "error"}

\* the producer registry has a record with this id whose producer is of this kind
IsKind(id, kind) ==
  \E i \in 1..Len(producers) :
     producers[i].producer.id = id /\ producers[i].producer.kind = kind

\* the recording part of a step: what startRecording and stopRecording answer
\* and do to the recorder's sessions.  joinedOnly restricts the startRecording
\* part to callers that have a peer record.
RecordingStep(joinedOnly) ==
  LET a == last'.args[1]
      v == last'.args[2]
  IN /\ (/\ last'.op = "startRecording"
         /\ joinedOnly => peers[last'.sock].exists
         /\ IsKind(a, "audio") /\ IsKind(v, "video")) =>
           /\ last'.resp = <<"success", "fileName">>
           /\ <<a, v>> \in recordings'
     /\ last'.op = "stopRecording" =>
           /\ last'.resp = IF <<a, v>> \in recordings
                             THEN <<"success", "filePath">>
                             ELSE <<"error", "Recording not found">>
           /\ <<a, v>> \notin recordings'
     /\ \A pair \in recordings' \ recordings :
           last'.op = "startRecording" /\ last'.args = pair

\* C9 as claimed: startRecording with an audio producer and a video producer of
\* the registry answers {success, fileName} and makes the session of the pair
\* active; stopRecording answers {success, filePath} exactly when the session of
\* the pair is active, and deactivates it; nothing else activates a session, so
\* a second stopRecording with no startRecording in between answers
\* 'Recording not found'.
CE_C9_RecordingLifecycle == [][RecordingStep(FALSE)]_vars

\* C9 amended: the same, for a startRecording sent on a connection that has a
\* peer record (has completed joinRoom).
C9_RecordingLifecycleJoined == [][RecordingStep(TRUE)]_vars

\* C9 happens: a session was started and has just been stopped
W_C9_RecordingLifecycleJoined ==
  last.op = "stopRecording" /\ last.cb = "ok" /\ last.resp = <<"success", "filePath">>

\* C10: startRecording answers an error and starts no session when an id is not
\* in the producer registry, or audioProducerId names a producer that is not
\* audio, or videoProducerId names one that is not video; with the kinds
\* swapped the error is 'Invalid producer kinds...'.
C10_BadPairRefused ==
  [][LET a == last'.args[1]
         v == last'.args[2]
     IN (last'.op = "startRecording" /\ ~(IsKind(a, "audio") /\ IsKind(v, "video"))) =>
           /\ last'.cb = "error"
           /\ last'.resp[1] = "error"
           /\ recordings' = recordings
           /\ (IsKind(a, "video") /\ IsKind(v, "audio")) =>
                last'.resp = <<"error",
                   "Invalid producer kinds. Need one audio and one video producer.">>
    ]_vars

\* C10 happens: the kinds-swapped pair was refused
W_C10_BadPairRefused ==
  /\ last.op = "startRecording"
  /\ IsKind(last.args[1], "video") /\ IsKind(last.args[2], "audio")
  /\ last.cb = "error"

\* every record of a registry is tagged with a peer that has a record, and its
\* handle's id is in that peer's list of the same name
RecordsAreOwned(items, type, list) ==
  \A i \in 1..Len(items) :
     /\ peers[items[i].socketId].exists
     /\ items[i][type].id \in Range(peers[items[i].socketId][list])
\* every id in a peer's list names a record of the registry
OwnedAreRecords(items, type, list) ==
  \A p \in Sockets :
     peers[p].exists => \A id \in Range(peers[p][list]) : HasHandle(items, type, id)

\* C11: in every state the transport, producer and consumer registries and the
\* peers' owned-id lists agree: each record is tagged with an existing peer that
\* lists its id, and each listed id names a record of the matching registry.
CE_C11_RegistriesMatchPeers ==
  /\ RecordsAreOwned(transports, "transport", "transports")
  /\ RecordsAreOwned(producers, "producer", "producers")
  /\ RecordsAreOwned(consumers, "consumer", "consumers")
  /\ OwnedAreRecords(transports, "transport", "transports")
  /\ OwnedAreRecords(producers, "producer", "producers")
  /\ OwnedAreRecords(consumers, "consumer", "consumers")

\* C12: once the disconnect of socket p has been handled, no registry holds a
\* record tagged with p, also after an engine call that p's request was
\* suspended on completes.
CE_C12_NoRecordAfterDisconnect ==
  \A p \in Sockets :
     ~connected[p] =>
        /\ ~Owns(transports, p)
        /\ ~Owns(producers, p)
        /\ ~Owns(consumers, p)

\* C13: a room name that has a routing context keeps it: no step changes the
\* router stored for an existing room, and a joinRoom completing for an
\* existing room answers that room's router.
CE_C13_OneRouterPerRoom ==
  [][\A r \in RoomNames :
        rooms[r].exists =>
           /\ rooms'[r].exists
           /\ rooms'[r].router = rooms[r].router
           /\ (last'.op = "joinRoom" /\ last'.cb = "ok" /\ last'.args = <<r>>) =>
                 last'.resp = <<rooms[r].router>>
    ]_vars

\* C14: when no joinRoom is suspended on the engine, every connected socket
\* that has a peer record is in the member list of the room the record names.
CE_C14_NoLostMember ==
  Suspended("joinRoom") = 0 =>
     \A p \in Sockets :
        (connected[p] /\ peers[p].exists) =>
           p \in Range(rooms[peers[p].roomName].peers)

\* C15: in every state the transport registry holds at most one send
\* (non-consumer) transport per socket, so getTransport's filter has at most
\* one match.
CE_C15_OneSendTransport ==
  \A p \in Sockets : Len(sendTransports(transports, p)) <= 1

\* C16: in every state, for every record of the consumer registry, the
\* receive transport the consumer was created on is in the transport registry
\* and the producer it consumes is in the producer registry.
CE_C16_ConsumerHasTransportAndProducer ==
  \A i \in 1..Len(consumers) :
     /\ HasHandle(transports, "transport", consumers[i].consumer.transportId)
     /\ HasHandle(producers, "producer", consumers[i].consumer.producerId)

\* C17: a joinRoom handled on a connection that has a peer record is answered
\* with an error and changes neither the peer records nor the rooms.  (Stated
\* for the handler that runs without waiting, the join of an existing room:
\* the peer record it finds is the one the message found.)
CE_C17_RejoinRejected ==
  [][(/\ last'.op = "joinRoom"
      /\ last'.stage = "returned"
      /\ peers[last'.sock].exists) =>
        /\ last'.cb = "error"
        /\ peers' = peers
        /\ rooms' = rooms
    ]_vars

\* C18: the disconnect of a socket that has no peer record raises no fault and
\* changes no registry, and a joinRoom of a disconnected socket that completes
\* afterwards leaves no peer record and no member list entry for it.
CE_C18_DisconnectUnjoinedIsNoOp ==
  /\ (last.op = "disconnect" /\ last.args = <<NoPeer.roomName>>) =>
        ~last.fault /\ ~last.changed
  /\ (last.op = "joinRoom" /\ last.stage = "resumed" /\ ~connected[last.sock]) =>
        /\ ~peers[last.sock].exists
        /\ \A r \in RoomNames : last.sock \notin Range(rooms[r].peers)

\* C19: after the disconnect of a joined peer no recording session that names
\* a producer the peer owned at the moment of the disconnect is active.
CE_C19_DisconnectStopsRecordings ==
  [][(last'.op = "disconnect" /\ ~last'.fault) =>
        \A pair \in recordings' :
           /\ pair[1] \notin ownedHandles(producers, last'.sock, "producer")
           /\ pair[2] \notin ownedHandles(producers, last'.sock, "producer")
    ]_vars

\* in the registries st, socket s has nothing left of this kind
Gone(st, s, what) ==
  CASE what = "consumers" -> ~Owns(st.consumers, s)
    [] what = "producers" -> ~Owns(st.producers, s)
    [] what = "transports" -> ~Owns(st.transports, s)
    [] what = "member" -> s \notin Range(st.rooms[peers[s].roomName].peers)
    [] what = "peer" -> ~st.peers[s].exists
\* the position in a run of the disconnect handler at which that happens
StepOf(run, s, what) ==
  CHOOSE k \in 1..Len(run) :
     Gone(run[k], s, what) /\ \A j \in 1..(k - 1) : ~Gone(run[j], s, what)
\* the handler's statements take these things away in this order (of the
\* things the socket has when the handler starts)
CleanupOrder(s, order) ==
  LET run == disconnectRun(s)
  IN \A a, b \in 1..Len(order) :
        (a < b /\ ~Gone(run[1], s, order[a]) /\ ~Gone(run[1], s, order[b])) =>
           StepOf(run, s, order[a]) < StepOf(run, s, order[b])

\* C20: the disconnect of a joined peer removes its consumers, then its
\* producers, then its transports, then takes the peer out of its room's
\* member list, and only then deletes the peer record.
CE_C20_CleanupOrder ==
  [][(last'.op = "disconnect" /\ ~last'.fault) =>
        CleanupOrder(last'.sock,
                     <<"consumers", "producers", "transports", "member", "peer">>)
    ]_vars

====
